---- MODULE Spec2Model ----
(***************************************************************************)
(* A model of calculator.py: the force / power model of a cyclist          *)
(* (calculate_forces, calculate_power), its inversion by bisection         *)
(* (calculate_velocity, pow_dict_to_leg_power) and the power sweep of      *)
(* update_graph.                                                           *)
(*                                                                         *)
(* Python floats are modelled as exact rationals: a number is a sign, a    *)
(* numerator and a denominator, the last two arbitrary-precision naturals  *)
(* (little-endian sequences of limbs), because the solver's tolerance      *)
(* (1e-6 W on powers of hundreds of watts, velocities halved up to 101     *)
(* times) does not fit TLC's 32-bit integers.                              *)
(***************************************************************************)
EXTENDS Integers, Sequences, FiniteSets, TLC

(***************************************************************************)
(* Arbitrary-precision naturals: <<>> is 0, no most-significant zero limb. *)
(***************************************************************************)
Base == 10 ^ 4

Limb(a, i) == IF i <= Len(a) THEN a[i] ELSE 0

RECURSIVE NatFromInt(_)
NatFromInt(k) == IF k = 0 THEN <<>> ELSE <<k % Base>> \o NatFromInt(k \div Base)

RECURSIVE NatNorm(_)
NatNorm(a) ==
    IF a = <<>> THEN <<>>
    ELSE IF a[Len(a)] = 0 THEN NatNorm(SubSeq(a, 1, Len(a) - 1)) ELSE a

RECURSIVE NatAddFrom(_, _, _, _)
NatAddFrom(a, b, i, carry) ==
    IF i > Len(a) /\ i > Len(b)
    THEN IF carry = 0 THEN <<>> ELSE <<carry>>
    ELSE LET t == Limb(a, i) + Limb(b, i) + carry
         IN  <<t % Base>> \o NatAddFrom(a, b, i + 1, t \div Base)

NatAdd(a, b) ==
    IF a = <<>> THEN b ELSE IF b = <<>> THEN a ELSE NatAddFrom(a, b, 1, 0)

\* a - b for a >= b
RECURSIVE NatSubFrom(_, _, _, _)
NatSubFrom(a, b, i, borrow) ==
    IF i > Len(a) THEN <<>>
    ELSE LET t == a[i] - Limb(b, i) - borrow
         IN  IF t < 0 THEN <<t + Base>> \o NatSubFrom(a, b, i + 1, 1)
                      ELSE <<t>> \o NatSubFrom(a, b, i + 1, 0)

NatSub(a, b) == NatNorm(NatSubFrom(a, b, 1, 0))

\* -1, 0 or 1 as the limbs i..1 of a are below, equal to or above those of b
RECURSIVE NatCmpFrom(_, _, _)
NatCmpFrom(a, b, i) ==
    IF i = 0 THEN 0
    ELSE IF a[i] < b[i] THEN -1
    ELSE IF a[i] > b[i] THEN 1
    ELSE NatCmpFrom(a, b, i - 1)

NatCmp(a, b) ==
    IF Len(a) < Len(b) THEN -1
    ELSE IF Len(a) > Len(b) THEN 1
    ELSE NatCmpFrom(a, b, Len(a))

\* a * k for a limb k
RECURSIVE NatMulLimbFrom(_, _, _, _)
NatMulLimbFrom(a, k, i, carry) ==
    IF i > Len(a)
    THEN IF carry = 0 THEN <<>> ELSE <<carry>>
    ELSE LET t == a[i] * k + carry
         IN  <<t % Base>> \o NatMulLimbFrom(a, k, i + 1, t \div Base)

NatMulLimb(a, k) ==
    IF k = 0 THEN <<>> ELSE IF k = 1 THEN a ELSE NatMulLimbFrom(a, k, 1, 0)

NatShift(a) == IF a = <<>> THEN <<>> ELSE <<0>> \o a

\* acc * Base^j + a * (the limbs 1..j of b)
RECURSIVE NatMulAcc(_, _, _, _)
NatMulAcc(a, b, j, acc) ==
    IF j = 0 THEN acc
    ELSE LET next == NatAdd(NatShift(acc), NatMulLimb(a, b[j]))
         IN  IF Len(next) >= 0 THEN NatMulAcc(a, b, j - 1, next) ELSE <<>>

NatMul(a, b) ==
    IF a = <<>> \/ b = <<>> THEN <<>>
    ELSE IF Len(b) = 1 THEN NatMulLimb(a, b[1])
    ELSE IF Len(a) = 1 THEN NatMulLimb(b, a[1])
    ELSE IF Len(a) >= Len(b) THEN NatMulAcc(a, b, Len(b), <<>>)
    ELSE NatMulAcc(b, a, Len(a), <<>>)

\* a \div 2, from the most significant limb down
RECURSIVE NatHalfFrom(_, _, _)
NatHalfFrom(a, i, rem) ==
    IF i = 0 THEN <<>>
    ELSE LET cur == rem * Base + a[i]
         IN  NatHalfFrom(a, i - 1, cur % 2) \o <<cur \div 2>>

NatHalf(a) == NatNorm(NatHalfFrom(a, Len(a), 0))

NatEven(a) == a = <<>> \/ a[1] % 2 = 0

\* p^k for p in {2, 3, 5, 7}
RECURSIVE NatPow(_, _)
NatPow(p, k) ==
    IF k <= 4 THEN NatFromInt(p ^ k) ELSE NatMulLimb(NatPow(p, k - 4), p ^ 4)

(***************************************************************************)
(* Rationals.  [s, n, e, g] is the number s * n / (2^e[1] * 3^e[2] *       *)
(* 5^e[3] * 7^e[4] * g): s is the sign, n the numerator's magnitude, and   *)
(* the denominator is kept as the exponents e of its small prime factors   *)
(* and a cofactor g, so that sums over denominators that differ by small   *)
(* factors do not square them.  Fractions are not reduced; numbers are     *)
(* compared with RCmp, never with =.  Zero has one form only.              *)
(***************************************************************************)
NoExp == <<0, 0, 0, 0>>

ExpAdd(e, f) == <<e[1] + f[1], e[2] + f[2], e[3] + f[3], e[4] + f[4]>>

Max(x, y) == IF x >= y THEN x ELSE y

\* the exponents by which e falls short of f
ExpLack(e, f) ==
    <<Max(f[1] - e[1], 0), Max(f[2] - e[2], 0), Max(f[3] - e[3], 0), Max(f[4] - e[4], 0)>>

Smooth(e) ==
    NatMul(NatMul(NatPow(2, e[1]), NatPow(3, e[2])), NatMul(NatPow(5, e[3]), NatPow(7, e[4])))

Zero == [s |-> 0, n |-> <<>>, e |-> NoExp, g |-> <<1>>]

RMk(s, n, e, g) ==
    IF s = 0 \/ n = <<>> THEN Zero ELSE [s |-> s, n |-> n, e |-> e, g |-> g]

Sgn(k) == IF k > 0 THEN 1 ELSE IF k < 0 THEN -1 ELSE 0

Abs(k) == IF k < 0 THEN -k ELSE k

\* how many times p divides m > 0
RECURSIVE Multiplicity(_, _)
Multiplicity(m, p) == IF m % p = 0 THEN 1 + Multiplicity(m \div p, p) ELSE 0

SmallExp(m) ==
    <<Multiplicity(m, 2), Multiplicity(m, 3), Multiplicity(m, 5), Multiplicity(m, 7)>>

SmallCofactor(m) ==
    LET e == SmallExp(m) IN m \div (2 ^ e[1] * 3 ^ e[2] * 5 ^ e[3] * 7 ^ e[4])

\* the number k / m, for integers k and m > 0
RFrac(k, m) == RMk(Sgn(k), NatFromInt(Abs(k)), SmallExp(m), NatFromInt(SmallCofactor(m)))

RInt(k) == RFrac(k, 1)

RNeg(a) == RMk(-a.s, a.n, a.e, a.g)

RAbs(a) == RMk(Abs(a.s), a.n, a.e, a.g)

RMul(a, b) == RMk(a.s * b.s, NatMul(a.n, b.n), ExpAdd(a.e, b.e), NatMul(a.g, b.g))

\* 1 / b for b # 0
RInv(b) ==
    IF Len(b.n) = 1
    THEN RMk(b.s, NatMul(Smooth(b.e), b.g), SmallExp(b.n[1]),
             NatFromInt(SmallCofactor(b.n[1])))
    ELSE RMk(b.s, NatMul(Smooth(b.e), b.g), NoExp, b.n)

\* a / b for b # 0
RDiv(a, b) == RMul(a, RInv(b))

\* the numerator of a over the common denominator of a and b
Numer(a, b) ==
    LET scaled == NatMul(a.n, Smooth(ExpLack(a.e, b.e)))
    IN  IF a.g = b.g THEN scaled ELSE NatMul(scaled, b.g)

\* the signed sum sx * x + sy * y of two naturals, over the denominator (e, g)
RSum(sx, x, sy, y, e, g) ==
    IF sx = sy THEN RMk(sx, NatAdd(x, y), e, g)
    ELSE LET c == NatCmp(x, y)
         IN  IF c = 0 THEN Zero
             ELSE IF c > 0 THEN RMk(sx, NatSub(x, y), e, g)
             ELSE RMk(sy, NatSub(y, x), e, g)

RAdd(a, b) ==
    IF a.s = 0 THEN b
    ELSE IF b.s = 0 THEN a
    ELSE RSum(a.s, Numer(a, b), b.s, Numer(b, a),
              ExpAdd(a.e, ExpLack(a.e, b.e)),
              IF a.g = b.g THEN a.g ELSE NatMul(a.g, b.g))

RSub(a, b) == RAdd(a, RNeg(b))

\* -1, 0 or 1 as a < b, a = b or a > b
RCmp(a, b) ==
    IF a.s # b.s THEN (IF a.s < b.s THEN -1 ELSE 1)
    ELSE IF a.s = 0 THEN 0
    ELSE a.s * NatCmp(Numer(a, b), Numer(b, a))

RLess(a, b) == RCmp(a, b) < 0

RGreater(a, b) == RCmp(a, b) > 0

RLeq(a, b) == RCmp(a, b) <= 0

REq(a, b) == RCmp(a, b) = 0

\* lowest terms of a number whose denominator is a power of two
RECURSIVE RNorm2(_)
RNorm2(a) ==
    IF a.s # 0 /\ a.e[1] > 0 /\ NatEven(a.n)
    THEN RNorm2([s |-> a.s, n |-> NatHalf(a.n), e |-> <<a.e[1] - 1, a.e[2], a.e[3], a.e[4]>>,
                 g |-> a.g])
    ELSE a

(***************************************************************************)
(* ScrapeParameters: the profile of one calculation.  Every field is a     *)
(* rational except ep_g, the hill grade in whole percent.                  *)
(***************************************************************************)
DefaultDrivetrainLoss == 2

\* the default rolling resistance coefficient 0.005, in thousandths
DefaultCrrMilli == 5

ScrapeParameters(rider_weight, bike_weight, frontal_area, drag_coefficient, hill_grade, headwind, air_density) ==
    [rp_wb       |-> bike_weight,
     rp_wr       |-> rider_weight,
     rp_a        |-> frontal_area,
     rp_cd       |-> drag_coefficient,
     rp_dtl      |-> RInt(DefaultDrivetrainLoss),
     ep_g        |-> hill_grade,
     ep_crr      |-> RFrac(DefaultCrrMilli, 1000),
     ep_rho      |-> air_density,
     ep_headwind |-> headwind]

\* a natural of up to three limbs, most significant first
Nat3(hi, mid, lo) == NatNorm(<<lo, mid, hi>>)

\* twelve decimal places: the denominator 10^12
Pico == <<12, 0, 12, 0>>

\* math.sin(math.atan(g / 100.0)) = g / sqrt(10000 + g^2), to twelve decimal
\* places, for the grades of the model
SinAtan(g) ==
    CASE g = 0   -> Zero
      [] g = 5   -> RMk(1, Nat3(499, 3761, 6944), Pico, <<1>>)
      [] g = -10 -> RMk(-1, Nat3(995, 371, 9021), Pico, <<1>>)

\* math.cos(math.atan(g / 100.0)) = 100 / sqrt(10000 + g^2), likewise
CosAtan(g) ==
    CASE g = 0   -> RInt(1)
      [] g = 5   -> RMk(1, Nat3(9987, 5233, 8878), Pico, <<1>>)
      [] g = -10 -> RMk(1, Nat3(9950, 3719, 210), Pico, <<1>>)

Gravity == RFrac(98067, 10000)

KmhToMs(x) == RDiv(RMul(x, RInt(1000)), RInt(3600))

\* lines 46-48
GravityForce(params) ==
    RMul(RMul(Gravity, RAdd(params.rp_wr, params.rp_wb)), SinAtan(params.ep_g))

\* lines 56 and 66: force *= -1.0 when the test of the line above holds
Signed(force, negative) == IF negative THEN RMul(force, RInt(-1)) ELSE force

\* lines 50-53
RollingMagnitude(params) ==
    RMul(RMul(RMul(Gravity, RAdd(params.rp_wr, params.rp_wb)), CosAtan(params.ep_g)),
         params.ep_crr)

\* the force of line 56 negated when velocity <= 0 instead of velocity < 0
RollingForceAtRest(velocity, params) ==
    Signed(RollingMagnitude(params), RLeq(velocity, Zero))

\* lines 50-56
RollingForce(velocity, params) ==
    Signed(RollingMagnitude(params), RLess(velocity, Zero))

\* lines 58-63
DragMagnitude(velocity, params) ==
    RMul(RMul(RMul(RMul(RMul(RFrac(1, 2), params.rp_a), params.rp_cd),
                   params.ep_rho),
              KmhToMs(RAdd(velocity, params.ep_headwind))),
         KmhToMs(RAdd(velocity, params.ep_headwind)))

\* the drag of lines 58-63 without the sign change of lines 65-66
DragForceUnsigned(velocity, params) == DragMagnitude(velocity, params)

\* lines 58-66
DragForce(velocity, params) ==
    Signed(DragMagnitude(velocity, params),
           RLess(RAdd(velocity, params.ep_headwind), Zero))

calculate_forces(velocity, params) ==
    [f_gravity |-> GravityForce(params),
     f_rolling |-> RollingForce(velocity, params),
     f_drag    |-> DragForce(velocity, params)]

\* lines 76-79, for the forces of line 75
ForcePower(forces, velocity) ==
    RMul(RAdd(RAdd(forces.f_gravity, forces.f_rolling), forces.f_drag),
         KmhToMs(velocity))

\* the wheel power of lines 75-79
WheelPower(velocity, params) ==
    ForcePower(calculate_forces(velocity, params), velocity)

\* lines 84-86
DriveTrainFrac(wheel_power, params) ==
    IF RGreater(wheel_power, Zero)
    THEN RSub(RInt(1), RDiv(params.rp_dtl, RInt(100)))
    ELSE RInt(1)

\* the leg power of lines 84-88, before the branch of line 90
RawLegPower(wheel_power, params) ==
    RDiv(wheel_power, DriveTrainFrac(wheel_power, params))

\* the branch of lines 90-99 with the loss of line 93 subtracted the other way
PowerBranchLossReversed(leg_power, wheel_power) ==
    IF RGreater(leg_power, Zero)
    THEN [leg_power        |-> leg_power,
          wheel_power      |-> wheel_power,
          drive_train_loss |-> RSub(wheel_power, leg_power),
          braking_power    |-> Zero]
    ELSE [leg_power        |-> Zero,
          wheel_power      |-> Zero,
          drive_train_loss |-> Zero,
          braking_power    |-> Zero]

\* lines 90-104; in the else branch leg_power is set to 0.0 before
\* braking_power is computed from it
PowerBranch(leg_power, wheel_power) ==
    IF RGreater(leg_power, Zero)
    THEN [leg_power        |-> leg_power,
          wheel_power      |-> wheel_power,
          drive_train_loss |-> RSub(leg_power, wheel_power),
          braking_power    |-> Zero]
    ELSE LET leg_power1 == Zero
         IN  [leg_power        |-> leg_power1,
              wheel_power      |-> Zero,
              drive_train_loss |-> Zero,
              braking_power    |-> RMul(leg_power1, RInt(-1))]

\* lines 84-104, for the wheel power of line 79
PowerOfWheel(wheel_power, params) ==
    PowerBranch(RawLegPower(wheel_power, params), wheel_power)

calculate_power(velocity, params) ==
    PowerOfWheel(WheelPower(velocity, params), params)

pow_dict_to_leg_power(pow_dict) ==
    IF RGreater(pow_dict.braking_power, Zero)
    THEN RMul(pow_dict.braking_power, RInt(-1))
    ELSE pow_dict.leg_power

(***************************************************************************)
(* calculate_velocity: the pieces of its loop.                             *)
(***************************************************************************)
epsilon == RFrac(1, 1000000)

MaxIterations == 100

StartLowerVel == -1000

StartUpperVel == 1000

\* the test of line 121 with its comparison inverted
ConvergedInverted(mid_pow, target) == RGreater(RAbs(RSub(mid_pow, target)), epsilon)

\* line 121
Converged(mid_pow, target) == RLess(RAbs(RSub(mid_pow, target)), epsilon)

\* lines 124-127 with the two assignments exchanged
NarrowSwapped(mid_pow, target, lo, mid, up) ==
    IF RGreater(mid_pow, target)
    THEN [lower_vel |-> mid, upper_vel |-> up]
    ELSE [lower_vel |-> lo, upper_vel |-> mid]

\* lines 124-127
Narrow(mid_pow, target, lo, mid, up) ==
    IF RGreater(mid_pow, target)
    THEN [lower_vel |-> lo, upper_vel |-> mid]
    ELSE [lower_vel |-> mid, upper_vel |-> up]

\* line 129; velocities have power-of-two denominators and are kept in lowest terms
MidPoint(up, lo) == RNorm2(RDiv(RAdd(up, lo), RInt(2)))

\* line 132 for a cap of 10 iterations
IterationCapLow(count) == count > 10

\* line 132 for a cap of 1000 iterations
IterationCapHigh(count) == count > 1000

\* line 132
IterationCap(count) == count > MaxIterations

(***************************************************************************)
(* update_graph: the range of line 216.                                    *)
(***************************************************************************)
\* math.ceil(k / m) for integers k and m > 0
CeilDiv(k, m) == -((-k) \div m)

\* math.ceil(0.4 * ftp)
SweepFirst(f) == CeilDiv(4 * f, 10)

\* one past the last power, with the upper end of the range included
SweepStopInclusive(f) == CeilDiv(13 * f, 10) + 1

\* math.ceil(1.3 * ftp), one past the last power
SweepStop(f) == CeilDiv(13 * f, 10)

SweepRange(f) == SweepFirst(f) .. (SweepStop(f) - 1)

\* line 218
IntensityFactor(p, f) == RMul(RDiv(RInt(p), RInt(f)), RInt(1))

\* line 228
TrainingStress(if_value, duration) ==
    RMul(RMul(RMul(if_value, if_value), duration), RInt(100))

(***************************************************************************)
(* The inputs of the model.                                                *)
(***************************************************************************)
\* the fine velocities are 5, 10, ..., 5 * 2^VelSteps km/h, either way
VelSteps == 3

\* the sweep's small ftp values are -MaxSmallFtp .. MaxSmallFtp
MaxSmallFtp == 4

\* the solver's whole target powers are 1 and 100, ..., 100 * MaxHundreds
MaxHundreds == 3

Grades == {-10, 0, 5}

Headwinds == {-40, 0, 20}

RiderWeights == {60, 75}

DragCoefficients == {RInt(0), RFrac(51, 100)}

\* the form's defaults (lines 161-182) but for the fields given
Profile(rider_weight, drag_coefficient, hill_grade, headwind) ==
    ScrapeParameters(RInt(rider_weight), RInt(10), RFrac(5, 10), drag_coefficient, hill_grade, RInt(headwind), RFrac(122, 100))

DefaultProfile(hill_grade) == Profile(75, RFrac(51, 100), hill_grade, 0)

Velocities ==
    {RInt(sg * 5 * 2 ^ k) : sg \in {-1, 1}, k \in 0 .. VelSteps}
        \cup {RInt(v) : v \in {-1000, -500, 0, 500, 1000}}

RoundTripVelocities == {10, 20, 30}

\* the power that calculate_power reports for v km/h, as one signed number
PowerAt(v, profile) == pow_dict_to_leg_power(calculate_power(RInt(v), profile))

UnreachablePower == 10 ^ 7

SolveTargets(profile) ==
    {RInt(p) : p \in {-50, 0, 1, UnreachablePower}}
        \cup {RInt(100 * k) : k \in 1 .. MaxHundreds}
        \cup {PowerAt(v, profile) : v \in RoundTripVelocities}

Ftps == (-MaxSmallFtp .. MaxSmallFtp) \cup {300}

VARIABLES
    params,        \* the ScrapeParameters of the call
    pc,            \* where the call stands
    velocity,      \* calculate_forces / calculate_power: the velocity given
    velocity2,     \* a second velocity, for the same profile
    forces,        \* calculate_forces(velocity, params)
    pow_dict,      \* calculate_power(velocity, params)
    pow_dict2,     \* calculate_power(velocity2, params)
    power,         \* calculate_velocity: the target power
    lower_vel, upper_vel, mid_vel, mid_pow_dict, it_count,
    evals,         \* the calls of calculate_power made by calculate_velocity
    ftp, race_distance,   \* update_graph: its inputs
    next_power,    \* the next integer of range(...) of line 216
    powers, speeds, durations, tss

physics_vars == <<velocity, velocity2, forces, pow_dict, pow_dict2>>

solver_vars == <<power, lower_vel, upper_vel, mid_vel, mid_pow_dict, it_count, evals>>

sweep_vars == <<ftp, race_distance, next_power, powers, speeds, durations, tss>>

vars == <<params, pc, physics_vars, solver_vars, sweep_vars>>

None == "none"

NoPhysics ==
    /\ velocity = None /\ velocity2 = None
    /\ forces = None /\ pow_dict = None /\ pow_dict2 = None

NoSolver ==
    /\ power = None /\ lower_vel = None /\ upper_vel = None /\ mid_vel = None
    /\ mid_pow_dict = None /\ it_count = 0 /\ evals = 0

NoSweep ==
    /\ ftp = None /\ race_distance = None /\ next_power = 0
    /\ powers = <<>> /\ speeds = <<>> /\ durations = <<>> /\ tss = <<>>

(***************************************************************************)
(* Direct calls of calculate_forces and calculate_power, for two           *)
(* velocities velocity <= velocity2 of one profile.                        *)
(***************************************************************************)
InitPower ==
    /\ params \in {Profile(w, cd, g, h) : w \in RiderWeights, cd \in DragCoefficients,
                                          g \in Grades, h \in Headwinds}
    /\ velocity \in Velocities
    /\ velocity2 \in {v \in Velocities : RLeq(velocity, v)}
    /\ forces = None /\ pow_dict = None /\ pow_dict2 = None
    /\ pc = "call"
    /\ NoSolver /\ NoSweep

CallForces ==
    /\ pc = "call"
    /\ forces' = calculate_forces(velocity, params)
    /\ pc' = "forces"
    /\ UNCHANGED <<params, velocity, velocity2, pow_dict, pow_dict2, solver_vars, sweep_vars>>

CallPower ==
    /\ pc = "forces"
    /\ pow_dict' = calculate_power(velocity, params)
    /\ pow_dict2' = calculate_power(velocity2, params)
    /\ pc' = "power"
    /\ UNCHANGED <<params, velocity, velocity2, forces, solver_vars, sweep_vars>>

NextPower == CallForces \/ CallPower

SpecPower == InitPower /\ [][NextPower]_vars

(***************************************************************************)
(* calculate_velocity, one pass of its loop per action.                    *)
(***************************************************************************)
\* lines 109-118
Enter ==
    /\ pc = "call"
    /\ lower_vel' = RInt(StartLowerVel)
    /\ upper_vel' = RInt(StartUpperVel)
    /\ mid_vel' = Zero
    /\ mid_pow_dict' = calculate_power(Zero, params)
    /\ it_count' = 0
    /\ evals' = evals + 1
    /\ pc' = "loop"
    /\ UNCHANGED <<params, power, physics_vars, sweep_vars>>

\* lines 120-122 and 135: the tolerance is met, the loop ends
Converge ==
    /\ pc = "loop"
    /\ Converged(pow_dict_to_leg_power(mid_pow_dict), power)
    /\ pc' = "return"
    /\ UNCHANGED <<params, physics_vars, solver_vars, sweep_vars>>

\* lines 129-130, for the bounds of lines 124-127 and the midpoint of line 129
Probe(bounds, mid) ==
    /\ lower_vel' = bounds.lower_vel
    /\ upper_vel' = bounds.upper_vel
    /\ mid_vel' = mid
    /\ mid_pow_dict' = calculate_power(mid, params)

\* lines 129-130, for the bounds of lines 124-127
Bisect(bounds) == Probe(bounds, MidPoint(bounds.upper_vel, bounds.lower_vel))

\* lines 120-133 (and 135 when the cap is passed)
Refine ==
    /\ pc = "loop"
    /\ ~Converged(pow_dict_to_leg_power(mid_pow_dict), power)
    /\ Bisect(Narrow(pow_dict_to_leg_power(mid_pow_dict), power,
                     lower_vel, mid_vel, upper_vel))
    /\ it_count' = it_count + 1
    /\ evals' = evals + 1
    /\ pc' = IF IterationCap(it_count + 1) THEN "return" ELSE "loop"
    /\ UNCHANGED <<params, power, physics_vars, sweep_vars>>

InitSolve ==
    /\ params \in {Profile(75, RFrac(51, 100), g, h) : g \in Grades, h \in {0, 20}}
                    \cup {Profile(60, RFrac(51, 100), 0, 0)}
    /\ power \in SolveTargets(params)
    /\ lower_vel = None /\ upper_vel = None /\ mid_vel = None
    /\ mid_pow_dict = None /\ it_count = 0 /\ evals = 0
    /\ pc = "call"
    /\ NoPhysics /\ NoSweep

NextSolve == Enter \/ Converge \/ Refine

SpecSolve == InitSolve /\ [][NextSolve]_vars

(***************************************************************************)
(* update_graph: the loop of lines 216-228, which calls calculate_velocity *)
(* for every power of the range.  The hover texts of lines 224-227 and the *)
(* figure are not modelled.                                                *)
(***************************************************************************)
InitSweep ==
    /\ \E f \in Ftps, g \in {0, 5} :
          /\ f = 300 => g = 0
          /\ ftp = f
          /\ params = DefaultProfile(g)
          /\ next_power = SweepFirst(f)
    /\ race_distance = RInt(180)
    /\ powers = <<>> /\ speeds = <<>> /\ durations = <<>> /\ tss = <<>>
    /\ power = None /\ lower_vel = None /\ upper_vel = None /\ mid_vel = None
    /\ mid_pow_dict = None /\ it_count = 0 /\ evals = 0
    /\ pc = "for"
    /\ NoPhysics

\* line 216: the range yields its next power; line 217 calls calculate_velocity
ForNext ==
    /\ pc = "for"
    /\ next_power < SweepStop(ftp)
    /\ power' = RInt(next_power)
    /\ next_power' = next_power + 1
    /\ evals' = 0
    /\ pc' = "call"
    /\ UNCHANGED <<params, physics_vars, lower_vel, upper_vel, mid_vel, mid_pow_dict,
                   it_count, ftp, race_distance, powers, speeds, durations, tss>>

\* line 216: the range is exhausted; lines 230-325 build and return the figure
ForEnd ==
    /\ pc = "for"
    /\ next_power >= SweepStop(ftp)
    /\ pc' = "figure"
    /\ UNCHANGED <<params, physics_vars, solver_vars, sweep_vars>>

\* lines 221-228 (without the hover text), for the values of lines 216-219
AppendEntry(p, speed, if_value, duration) ==
    /\ powers' = Append(powers, p)
    /\ speeds' = Append(speeds, speed)
    /\ durations' = Append(durations, duration)
    /\ tss' = Append(tss, TrainingStress(if_value, duration))

\* lines 217-228, after calculate_velocity has returned mid_vel
Body ==
    /\ pc = "return"
    /\ IF mid_vel = Zero
       THEN /\ pc' = "ZeroDivisionError"
            /\ UNCHANGED <<powers, speeds, durations, tss>>
       ELSE /\ AppendEntry(next_power - 1, mid_vel,
                           IntensityFactor(next_power - 1, ftp),
                           RDiv(race_distance, mid_vel))
            /\ pc' = "for"
    /\ UNCHANGED <<params, physics_vars, solver_vars, ftp, race_distance, next_power>>

NextSweep == ForNext \/ ForEnd \/ Enter \/ Converge \/ Refine \/ Body

SpecSweep == InitSweep /\ [][NextSweep]_vars

(***************************************************************************)
(* The claims.                                                             *)
(***************************************************************************)
Positive(x) == RGreater(x, Zero)

IsZero(x) == REq(x, Zero)

Returned == pc = "return"

\* the profile has a flat road and still air
FlatAndStill == params.ep_g = 0 /\ IsZero(params.ep_headwind)

\* C1 as stated: for hill grade -10, the other fields at their defaults, and
\* target power 0, calculate_velocity returns a strictly positive velocity at
\* which calculate_power reports braking_power > 0 and leg_power = 0.
C1_BrakingRegime ==
    (Returned /\ params = DefaultProfile(-10) /\ IsZero(power))
        => /\ Positive(mid_vel)
           /\ Positive(calculate_power(mid_vel, params).braking_power)
           /\ IsZero(calculate_power(mid_vel, params).leg_power)

\* C1 as amended: for hill grade -10, the other fields at their defaults, and
\* target power 0, calculate_velocity returns velocity 0 from its first test of
\* the tolerance, with no refinement and one evaluation of calculate_power,
\* and calculate_power at that velocity reports braking_power = 0 and
\* leg_power = 0.
C1_BrakingRegimeAmended ==
    (Returned /\ params = DefaultProfile(-10) /\ IsZero(power))
        => /\ IsZero(mid_vel)
           /\ it_count = 0
           /\ evals = 1
           /\ IsZero(calculate_power(mid_vel, params).braking_power)
           /\ IsZero(calculate_power(mid_vel, params).leg_power)

C1_Witness == Returned /\ params = DefaultProfile(-10) /\ IsZero(power)

\* the two velocities of a direct call have their powers computed, for a
\* profile with drag coefficient >= 0 and hill grade >= 0
MonotoneCase == pc = "power" /\ params.ep_g >= 0 /\ RLeq(Zero, params.rp_cd)

\* C2 as stated: for a profile with drag coefficient >= 0 and hill grade >= 0
\* and velocities v1 <= v2 in [-1000, 1000], the effective power at v1 is at
\* most the effective power at v2, negative velocities included.
C2_Monotone ==
    MonotoneCase
        => RLeq(pow_dict_to_leg_power(pow_dict), pow_dict_to_leg_power(pow_dict2))

\* C2 as amended: for a profile with drag coefficient >= 0 and hill grade >= 0
\* and velocities 0 <= v1 <= v2 <= 1000, the effective power at v1 is at most
\* the effective power at v2.
C2_MonotoneForward ==
    (MonotoneCase /\ RLeq(Zero, velocity))
        => RLeq(pow_dict_to_leg_power(pow_dict), pow_dict_to_leg_power(pow_dict2))

C2_Witness ==
    /\ MonotoneCase
    /\ Positive(velocity)
    /\ RLess(velocity, velocity2)
    /\ Positive(pow_dict_to_leg_power(pow_dict))
    /\ RLess(pow_dict_to_leg_power(pow_dict), pow_dict_to_leg_power(pow_dict2))

\* calculate_forces has been called at velocity 0 on a flat road in still air
ZeroCase == pc = "forces" /\ IsZero(velocity) /\ FlatAndStill

\* C3 as stated: at velocity 0 with hill grade 0 and headwind 0, f_gravity,
\* f_rolling and f_drag are all exactly zero.
C3_ZeroCase ==
    ZeroCase
        => IsZero(forces.f_gravity) /\ IsZero(forces.f_rolling) /\ IsZero(forces.f_drag)

\* C3 as amended: at velocity 0 with hill grade 0 and headwind 0, f_gravity
\* and f_drag are exactly zero and f_rolling is 9.8067 * (rider weight + bike
\* weight) * 0.005, which is positive.
C3_ZeroCaseAmended ==
    ZeroCase
        => /\ IsZero(forces.f_gravity)
           /\ IsZero(forces.f_drag)
           /\ REq(forces.f_rolling,
                  RMul(RMul(RFrac(98067, 10000), RAdd(params.rp_wr, params.rp_wb)),
                       RFrac(5, 1000)))
           /\ Positive(forces.f_rolling)

C3_Witness == ZeroCase /\ params.rp_wr = RInt(60)

\* the leg power that calculate_power computes at line 88 for velocity
ComputedLegPower == RawLegPower(WheelPower(velocity, params), params)

\* C4: whenever the leg power computed by calculate_power is not > 0, the
\* breakdown has leg_power = 0, wheel_power = 0, drive_train_loss = 0 and
\* braking_power equal to the magnitude of the computed leg power.
C4_BrakingMagnitude ==
    (pc = "power" /\ ~Positive(ComputedLegPower))
        => /\ IsZero(pow_dict.leg_power)
           /\ IsZero(pow_dict.wheel_power)
           /\ IsZero(pow_dict.drive_train_loss)
           /\ REq(pow_dict.braking_power, RAbs(ComputedLegPower))

LossOnlyWhenDriving(d) ==
    /\ Positive(d.braking_power) => IsZero(d.drive_train_loss)
    /\ Positive(d.leg_power)
          => /\ Positive(d.drive_train_loss)
             /\ REq(d.drive_train_loss, RSub(d.leg_power, d.wheel_power))
    /\ ~(Positive(d.leg_power) /\ Positive(d.braking_power))

\* C5: with a drivetrain loss of 2 percent, every breakdown calculate_power
\* returns has drive_train_loss = 0 whenever braking_power > 0, and
\* drive_train_loss = leg_power - wheel_power > 0 whenever leg_power > 0, and
\* never both leg_power > 0 and braking_power > 0.
C5_LossOnlyWhenDriving ==
    (pc = "power" /\ REq(params.rp_dtl, RInt(2)))
        => LossOnlyWhenDriving(pow_dict) /\ LossOnlyWhenDriving(pow_dict2)

\* a driving breakdown at velocity and a breakdown for a negative wheel power
\* at velocity2
C5_Witness ==
    /\ pc = "power"
    /\ REq(params.rp_dtl, RInt(2))
    /\ Positive(pow_dict.leg_power)
    /\ Positive(pow_dict.drive_train_loss)
    /\ RLess(WheelPower(velocity2, params), Zero)
    /\ IsZero(pow_dict2.drive_train_loss)

\* the least integer that is at least num / 10, for num >= 0
CeilTenth(num) == CHOOSE k \in 0 .. num : 10 * k >= num /\ 10 * (k - 1) < num

\* C6: for ftp > 0 the sweep appends one entry for each integer power from
\* ceil(0.4 * ftp) to ceil(1.3 * ftp) - 1, in ascending order and without
\* failing, the four series always of one length; for ftp = 300 the powers are
\* 120 .. 389; and the entry of power = ftp has intensity factor 1 and
\* tss = duration * 100.
C6_SweepRange ==
    LET first == CeilTenth(4 * ftp)
        stop == CeilTenth(13 * ftp)
    IN  ftp > 0
        => /\ pc # "ZeroDivisionError"
           /\ Len(speeds) = Len(powers)
           /\ Len(durations) = Len(powers)
           /\ Len(tss) = Len(powers)
           /\ \A i \in 1 .. Len(powers) :
                 /\ powers[i] = first + i - 1
                 /\ powers[i] <= stop - 1
                 /\ powers[i] = ftp
                       => /\ REq(IntensityFactor(powers[i], ftp), RInt(1))
                          /\ REq(tss[i], RMul(durations[i], RInt(100)))
           /\ pc = "figure" => Len(powers) = stop - first
           /\ (pc = "figure" /\ ftp = 300)
                 => powers[1] = 120 /\ powers[Len(powers)] = 389 /\ powers[181] = 300

\* a finished sweep with an entry at power = ftp
C6_Witness ==
    /\ pc = "figure"
    /\ ftp > 0
    /\ Len(tss) = 4
    /\ \E i \in 1 .. Len(powers) : powers[i] = ftp

\* C7: for a profile with hill grade 0 and headwind 0 and v in {10, 20, 30}
\* km/h, calculate_velocity at the effective power of calculate_power(v)
\* returns a velocity within 1e-4 km/h of v.
C7_RoundTrip ==
    \A v \in RoundTripVelocities :
        (Returned /\ FlatAndStill /\ REq(power, PowerAt(v, params)))
            => RLess(RAbs(RSub(mid_vel, RInt(v))), RFrac(1, 10000))

C7_Witness ==
    /\ Returned /\ FlatAndStill /\ it_count > 0
    /\ REq(power, PowerAt(30, params))
    /\ ~REq(mid_vel, RInt(30))

\* C8 as stated: calculate_velocity evaluates calculate_power at most 101
\* times in all.
C8_EvaluationCap == evals <= 101

\* C8 as amended: calculate_velocity ends after at most 102 evaluations of
\* calculate_power, the one at midpoint 0 and at most 101 refinements: it
\* leaves the loop once the iteration counter exceeds 100 and, when the
\* tolerance was not reached, returns the midpoint of the last refinement
\* without an error.
C8_EvaluationCapAmended ==
    /\ pc \in {"call", "loop", "return"}
    /\ evals <= 102
    /\ pc # "call" => evals = it_count + 1
    /\ pc = "loop" => it_count <= 100
    /\ (Returned /\ ~Converged(pow_dict_to_leg_power(mid_pow_dict), power))
          => /\ it_count = 101
             /\ REq(RMul(mid_vel, RInt(2)), RAdd(lower_vel, upper_vel))

C8_Witness ==
    /\ Returned
    /\ ~Converged(pow_dict_to_leg_power(mid_pow_dict), power)
    /\ evals = 102

\* C10: for a target power >= 1 the bisection keeps
\* -1000 <= lower_vel <= mid_vel <= upper_vel <= 1000, with mid_vel the mean of
\* the bounds after each refinement and lower_vel >= 0 from the first
\* refinement on, and returns a velocity in (0, 1000]; every power of the
\* sweep's range is >= 1 (the range is empty for ftp <= 0), so the sweep never
\* divides by a velocity of 0.
C10_BisectionBounds ==
    /\ (pc \in {"loop", "return"} /\ RLeq(RInt(1), power))
          => /\ RLeq(RInt(-1000), lower_vel)
             /\ RLeq(lower_vel, mid_vel)
             /\ RLeq(mid_vel, upper_vel)
             /\ RLeq(upper_vel, RInt(1000))
             /\ it_count >= 1
                   => /\ REq(RMul(mid_vel, RInt(2)), RAdd(lower_vel, upper_vel))
                      /\ RLeq(Zero, lower_vel)
             /\ Returned => Positive(mid_vel) /\ RLeq(mid_vel, RInt(1000))
    /\ \A f \in Ftps : \A p \in SweepRange(f) : p >= 1
    /\ \A f \in Ftps : f <= 0 => SweepRange(f) = {}

C10_Witness ==
    /\ Returned
    /\ RLeq(RInt(1), power)
    /\ it_count > 1
    /\ Positive(lower_vel)
    /\ RLess(upper_vel, RInt(1000))

====
